---- MODULE Spec2Model ----
(***************************************************************************)
(* Model of the WeeWX PiJuice service (bin/user/juice.py).                 *)
(*                                                                         *)
(* PiJuiceService is constructed once from the [PiJuice] stanza of the     *)
(* WeeWX configuration; construction resolves the field map, exercises the *)
(* PiJuice and binds new_loop_packet to the NEW_LOOP_PACKET event.  Each   *)
(* loop packet event then runs new_loop_packet, which polls the PiJuice    *)
(* API when the update interval has passed and merges the data into the    *)
(* packet.                                                                 *)
(*                                                                         *)
(* Python values are represented as follows.                               *)
(*   dict              a function from its keys                            *)
(*   None / absent     the empty tuple <<>>; a present value x is <<x>>    *)
(*   number            a record [num, den] (floats arise from / 1000.0)    *)
(*   API response      a record [error, has_data, data]                    *)
(*   property result   a record [is_error, error, value]                   *)
(*   nested section    the marker Section, its content kept in config      *)
(***************************************************************************)
EXTENDS Integers, FiniteSets, Sequences, TLC

VARIABLES
    supplied,        \* the [PiJuice] stanza as the configuration file supplied it
    config,          \* the [PiJuice] stanza, pj_config_dict
    pc,              \* "init", "failed", "disabled" or "bound"
    field_map,       \* self.field_map
    api_calls,       \* self.api_calls
    update_interval, \* self.update_interval
    last_update,     \* self.last_update, <<>> is None
    pj,              \* self.pj: <<>> is None, else the PiJuiceApi object's bus and address
    hardware,        \* the bus and address of every pijuice.PiJuice object created
    raised,          \* the exception that left the latest call of the constructor or
                     \* of an event handler, "" if none
    init_status,     \* _status, the PiJuice status read at construction, <<>> if not read
    bindings,        \* the events the service was bound to, one entry for each bind()
    args,            \* the argparse arguments of the command line tool
    printed,         \* the lines the command line tool has printed
    ran,             \* the handlers process_options has called, in order
    config_debug,    \* the debug option of config_dict, <<>> if it is not given
    weewx_debug,     \* weewx.debug
    now,             \* timestamp of the latest loop packet event, <<>> if none
    packet,          \* event.packet of the latest event after the handler ran
    resp,            \* the API responses the PiJuice gave during the latest event
    polled,          \* the latest event obtained PiJuice data
    prev_update,     \* self.last_update as it was before the latest event
    poll_times,      \* <<time of the poll before the latest poll, time of the latest poll>>
    mono,            \* all event timestamps so far were non-decreasing
    archive_config,  \* config_dict as PiJuiceArchive reads it: <<>> without a [PiJuice]
                     \* stanza, else the data_binding option of the stanza
    data_binding,    \* self.data_binding of PiJuiceArchive, "" before construction
    added,           \* for each binding the records handed to addRecord of its manager
    archive_events   \* event.record of every NEW_ARCHIVE_RECORD event so far

vars == <<supplied, config, pc, field_map, api_calls, update_interval, last_update,
          pj, hardware, raised, init_status, bindings, args, printed, ran, now, packet,
          resp, polled, prev_update, poll_times, mono,
          archive_config, data_binding, added, archive_events, config_debug,
          weewx_debug>>

\* what main reads and sets of the debug level
main_vars == <<config_debug, weewx_debug>>

\* the state of PiJuiceArchive
archive_vars == <<archive_config, data_binding, added, archive_events>>

----------------------------------------------------------------------------
\* Bounds of the model.

\* loop packet timestamps are drawn from 0..MaxTime
MaxTime == 2
\* configured update intervals are drawn from 0..MaxInterval
MaxInterval == 2
\* at most MaxFaults API calls of one poll answer with something other than
\* a plain NO_ERROR response
MaxFaults == 1

\* at most MaxRecords archive record events are followed
MaxRecords == 3

\* at most MaxPackets loop packets of test_service are followed
MaxPackets == 1

----------------------------------------------------------------------------
\* Generic helpers for dicts and optional values.

None == <<>>

Some(x) == <<x>>

IsNone(o) == o = <<>>

Get(o) == o[1]

EmptyMap == [k \in {} |-> ""]

Range(f) == {f[k] : k \in DOMAIN f}

\* dict.pop of every key in ks
Without(f, ks) == [k \in DOMAIN f \ ks |-> f[k]]

\* d.update(e)
Update(d, e) == [k \in DOMAIN d \cup DOMAIN e |-> IF k \in DOMAIN e THEN e[k] ELSE d[k]]

\* every dict with keys among ks and values among vs
Maps(ks, vs) == UNION {[s -> vs] : s \in SUBSET ks}

\* every dict of at most one entry with its key in ks and its value in vs
SmallMaps(ks, vs) == {EmptyMap} \cup {[k \in {x} |-> v] : x \in ks, v \in vs}

----------------------------------------------------------------------------
\* Module level tables.

\* PiJuice error messages with plain English meaning
pj_errors ==
    ("NO_ERROR" :> "No error")
    @@ ("COMMUNICATION_ERROR" :> "Communication error")
    @@ ("DATA_CORRUPTED" :> "Corrupt data")
    @@ ("WRITE_FAILED" :> "Write failed")
    @@ ("BAD_ARGUMENT" :> "Invalid argument")
    @@ ("INVALID_DUTY_CYCLE" :> "Invalid duty cycle")
    @@ ("INVALID_SECOND" :> "Invalid second")
    @@ ("INVALID_MINUTE" :> "Invalid minute")
    @@ ("INVALID_HOUR" :> "Invalid hour")
    @@ ("INVALID_WEEKDAY" :> "Invalid week day")
    @@ ("INVALID_DAY" :> "Invalid day")
    @@ ("INVALID_MONTH" :> "Invalid month")
    @@ ("INVALID_YEAR" :> "Invalid year")
    @@ ("INVALID_SUBSECOND" :> "Invalid sub-second")
    @@ ("INVALID_MINUTE_PERIOD" :> "Invalid minute period")
    @@ ("INVALID_DAY_OF_MONTH" :> "Invalid day of month")
    @@ ("UNKNOWN_DATA" :> "Unknown data")
    @@ ("INVALID_USB_MICRO_CURRENT_LIMIT" :> "Invalid microUSB current limit")
    @@ ("INVALID_USB_MICRO_DPM" :>
            "Invalid microUSB Dynamic Power Management (DPM) loop")
    @@ ("INVALID_CONFIG" :> "Invalid configuration")
    @@ ("INVALID_PERIOD" :> "Invalid period")

\* PiJuice status condition names with plain English equivalents
pj_status ==
    ("isFault" :> "Fault exists")
    @@ ("isButton" :> "Button events exist")
    @@ ("battery" :> "Battery")
    @@ ("powerInput" :> "µUSB power input")
    @@ ("powerInput5vIo" :> "5V GPIO power input")

\* PiJuice states with plain English equivalents
pj_states ==
    ("NORMAL" :> "Normal")
    @@ ("PRESENT" :> "Present")
    @@ ("NOT_PRESENT" :> "Not present")
    @@ ("CHARGING_FROM_IN" :> "Charging from µUSB power input")
    @@ ("CHARGING_FROM_5V_IO" :> "Charging from 5V GPIO power input")
    @@ ("BAD" :> "Bad")
    @@ ("WEAK" :> "Weak")

\* PiJuice fault status names with plain English equivalents
pj_fault_status ==
    ("button_power_off" :> "Power off triggered by button press")
    @@ ("forced_power_off" :> "Forced power off caused by loss of energy")
    @@ ("forced_sys_power_off" :>
            "Forced system switch turn off caused by loss of energy")
    @@ ("watchdog_reset" :> "Watchdog reset")
    @@ ("battery_profile_invalid" :> "Battery profile is invalid")
    @@ ("charging_temperature_fault" :> "Battery charging temperature fault")

\* PiJuice fault states with plain English equivalents
pj_fault_states ==
    ("NORMAL" :> "Normal")
    @@ ("SUSPEND" :> "Suspend")
    @@ ("COOL" :> "Cool")
    @@ ("WARM" :> "Warm")

api_lookup ==
    [f \in {"batt_temp", "batt_charge", "batt_voltage", "batt_current",
            "io_voltage", "io_current"} |->
        CASE f = "batt_temp" -> "battery_temperature"
          [] f = "batt_charge" -> "charge_level"
          [] f = "batt_voltage" -> "battery_voltage"
          [] f = "batt_current" -> "battery_current"
          [] f = "io_voltage" -> "io_voltage"
          [] f = "io_current" -> "io_current"]

default_field_map ==
    [k \in {"ups_temp", "ups_charge", "ups_voltage", "ups_current",
            "io_voltage", "io_current"} |->
        CASE k = "ups_temp" -> "batt_temp"
          [] k = "ups_charge" -> "batt_charge"
          [] k = "ups_voltage" -> "batt_voltage"
          [] k = "ups_current" -> "batt_current"
          [] k = "io_voltage" -> "io_voltage"
          [] k = "io_current" -> "io_current"]

default_update_interval == 20

\* PiJuiceApi.__init__(self, bus=1, address=0x14, **kwargs)
default_bus == 1

default_address == 20

\* the value of the key field_map_extensions of a [[field_map]] stanza that
\* holds a nested [[[field_map_extensions]]] section
Section == "<section>"


----------------------------------------------------------------------------
\* Numbers, PiJuice API responses and the results of the PiJuiceApi properties.

Num(n) == [num |-> n, den |-> 1]

\* x / 1000.0
Div1000(x) == [num |-> x.num, den |-> x.den * 1000]

\* a PiJuice API response {'error': e, 'data': d}
RespData(e, d) == [error |-> e, has_data |-> TRUE, data |-> d]

\* a PiJuice API response {'error': e}
RespError(e) == [error |-> e, has_data |-> FALSE, data |-> Num(0)]

\* a number as a property result or loop packet value
Value(x) == [is_error |-> FALSE, error |-> "", value |-> x]

\* the dict {'error': e} as a property result or loop packet value
ErrorDict(e) == [is_error |-> TRUE, error |-> e, value |-> Num(0)]

\* get_data_or_error with the error code of the response replaced
get_data_or_error_LosesCode(r) ==
    IF r.has_data THEN Value(r.data) ELSE ErrorDict("UNKNOWN_ERROR")

\* PiJuiceApi.get_data_or_error: resp.get('data', {'error': resp.get('error')})
get_data_or_error(r) ==
    IF r.has_data THEN Value(r.data) ELSE ErrorDict(r.error)

\* the PiJuiceApi properties that convert milli-units
MilliProperties == {"battery_voltage", "battery_current", "io_voltage", "io_current"}

\* Property with no property converting milli-units
Property_NoConversion(fn, r) == get_data_or_error(r)

\* the PiJuiceApi property fn evaluated when the PiJuice answers r
Property(fn, r) ==
    IF fn \in MilliProperties
    THEN get_data_or_error(IF r.has_data THEN [r EXCEPT !.data = Div1000(@)] ELSE r)
    ELSE get_data_or_error(r)

\* HasErrorKey with no result holding the key
HasErrorKey_Never(x) == FALSE

\* 'error' in x, for a property result x
HasErrorKey(x) == x.is_error

----------------------------------------------------------------------------
\* PiJuiceApi.__init__

\* a string, as a value of a configuration option
StrValue(s) == [is_str |-> TRUE, s |-> s, n |-> 0]

\* an integer, as a value of a configuration option or command line argument
IntValue(n) == [is_str |-> FALSE, s |-> "", n |-> n]

\* the strings that int(x, 0) accepts, with their values; int(x, 0) raises
\* ValueError for every other string
IntLiterals == ("0" :> 0) @@ ("1" :> 1) @@ ("0x14" :> 20) @@ ("0x15" :> 21)

\* int(x, 0), and int(x) if that raises TypeError because x is no string;
\* None if the conversion raises
ToInt(x) ==
    IF x.is_str
    THEN IF x.s \in DOMAIN IntLiterals THEN Some(IntLiterals[x.s]) ELSE None
    ELSE Some(x.n)

\* the keyword argument of PiJuiceApi.__init__ that option opt provides
KeywordArg(opt, default) == IF IsNone(opt) THEN IntValue(default) ELSE Get(opt)

\* PiJuiceApi_init with a bus or address that does not convert replaced by
\* its default
PiJuiceApi_init_Lenient(cfg) ==
    LET bus == ToInt(KeywordArg(cfg.bus, default_bus))
        address == ToInt(KeywordArg(cfg.address, default_address))
    IN  [error |-> "",
         created |-> TRUE,
         bus |-> IF IsNone(bus) THEN default_bus ELSE Get(bus),
         address |-> IF IsNone(address) THEN default_address ELSE Get(address)]

\* PiJuiceApi(**cfg): the exception raised, if any, whether the
\* pijuice.PiJuice object was created, and the bus and address used
PiJuiceApi_init(cfg) ==
    LET bus == ToInt(KeywordArg(cfg.bus, default_bus))
        address == ToInt(KeywordArg(cfg.address, default_address))
    IN  IF IsNone(bus)
        THEN [error |-> "Invalid bus", created |-> FALSE, bus |-> 0, address |-> 0]
        ELSE IF IsNone(address)
        THEN [error |-> "Invalid address", created |-> FALSE, bus |-> 0, address |-> 0]
        ELSE [error |-> "", created |-> TRUE, bus |-> Get(bus), address |-> Get(address)]

----------------------------------------------------------------------------
\* The inputs of the model: configurations and PiJuice behaviour.

FieldMapKeys == {"ups_voltage", "batt_volts"}

FieldMapValues == {"batt_voltage", "bogus"}

ExtensionKeys == {"ups_voltage", "batt_volts"}

ExtensionValues == {"batt_voltage"}

DataValues == {4050}

ErrorCodes == {"COMMUNICATION_ERROR"}

\* a plain answer: no error, with data
PlainResponses == {RespData("NO_ERROR", Num(d)) : d \in DataValues}

\* an error without data, or an error code other than NO_ERROR with data
FaultResponses ==
    {RespError(e) : e \in ErrorCodes}
    \cup {RespData(e, Num(d)) : e \in ErrorCodes, d \in DataValues}

Responses == PlainResponses \cup FaultResponses

\* what the PiJuice answers to each of the API calls of one poll
ResponseTables(calls) ==
    UNION {{Update(plain, fault) :
                plain \in [calls \ faulty -> PlainResponses],
                fault \in [faulty -> FaultResponses]} :
            faulty \in {f \in SUBSET calls : Cardinality(f) <= MaxFaults}}

\* a [[field_map]] stanza, without or with a nested field_map_extensions section;
\* the extensions are supplied in one place, nested or as a stanza of their own
FieldMapStanzas ==
    LET flat == Maps(FieldMapKeys, FieldMapValues)
    IN  {[map |-> m, section |-> EmptyMap] : m \in flat}
        \cup {[map |-> Update(m, "field_map_extensions" :> Section), section |-> e] :
                m \in flat, e \in SmallMaps(ExtensionKeys, ExtensionValues)}

\* the values of the update_interval option, None if it is not given
IntervalOptions == {None} \cup {Some(n) : n \in 0..MaxInterval}

\* the [[field_map_extensions]] stanzas, None if there is none
ExtensionOptions == {None} \cup {Some(x) : x \in SmallMaps(ExtensionKeys, ExtensionValues)}

\* the configurations that leave bus and address to their defaults; without
\* a [[field_map]] stanza either the update interval or the
\* [[field_map_extensions]] stanza is given, not both
PlainConfigs ==
    UNION {{[field_map |-> None, section |-> EmptyMap, field_map_extensions |-> e,
             update_interval |-> i, bus |-> None, address |-> None] :
                i \in IF IsNone(e) THEN IntervalOptions ELSE {None}} :
           e \in ExtensionOptions}
    \cup
    UNION {{[field_map |-> Some(st.map), section |-> st.section,
             field_map_extensions |-> e, update_interval |-> i,
             bus |-> None, address |-> None] :
                e \in IF "field_map_extensions" \in DOMAIN st.map THEN {None}
                      ELSE ExtensionOptions,
                i \in IntervalOptions} : st \in FieldMapStanzas}

\* the values of the bus option, None if it is not given
BusOptions == {None, Some(StrValue("0")), Some(StrValue("abc"))}

\* the values of the address option, None if it is not given
AddressOptions == {None, Some(StrValue("0x14")), Some(StrValue("zz"))}

\* the configurations that give a bus or an address, and nothing else
BusAddressConfigs ==
    {[field_map |-> None, section |-> EmptyMap, field_map_extensions |-> None,
      update_interval |-> None, bus |-> b, address |-> a] :
        b \in BusOptions, a \in AddressOptions}

Configs == PlainConfigs \cup BusAddressConfigs

----------------------------------------------------------------------------
\* PiJuiceService.__init__

\* BaseFieldMap without the fall back to the default field map
BaseFieldMap_NoDefault(cfg) ==
    IF IsNone(cfg.field_map) THEN EmptyMap ELSE Get(cfg.field_map)

\* BaseFieldMap with a [[field_map]] stanza merged into the default field map
BaseFieldMap_MergeDefault(cfg) ==
    IF IsNone(cfg.field_map) THEN default_field_map
    ELSE Update(default_field_map, Get(cfg.field_map))

\* pj_config_dict.get('field_map'), the default field map copied if it is None
BaseFieldMap(cfg) ==
    IF IsNone(cfg.field_map) THEN default_field_map ELSE Get(cfg.field_map)

\* field_map.get('field_map_extensions', {})
Extensions(cfg, fm) ==
    IF "field_map_extensions" \in DOMAIN fm THEN cfg.section ELSE EmptyMap

\* the field map after the field map extensions have been processed
ResolveFieldMap(cfg) ==
    LET fm == BaseFieldMap(cfg)
        extensions == Extensions(cfg, fm)
    IN  IF Cardinality(DOMAIN extensions) > 0
        THEN Update(Without(fm, {k \in DOMAIN fm : fm[k] \in Range(extensions)}),
                    extensions)
        ELSE fm

\* api_lookup.get(field) raises TypeError for a field that is a section
ApiLookupRaises(fm) == Section \in Range(fm)

\* the set of API calls that populate the fields of the field map
ApiCalls(fm) == {api_lookup[v] : v \in Range(fm) \cap DOMAIN api_lookup}

\* to_int(pj_config_dict.get('update_interval', default_update_interval))
UpdateInterval(cfg) ==
    IF IsNone(cfg.update_interval) THEN default_update_interval
    ELSE Get(cfg.update_interval)

PiJuiceService_init(status) ==
    /\ pc = "init"
    /\ LET fm == ResolveFieldMap(config)
       IN  /\ field_map' = fm
           \* a [[field_map]] stanza is processed in place
           /\ config' = IF IsNone(config.field_map) THEN config
                        ELSE [config EXCEPT !.field_map = Some(fm)]
           /\ IF ApiLookupRaises(fm)
              THEN /\ pc' = "failed"
                   /\ raised' = "TypeError"
                   /\ UNCHANGED <<api_calls, update_interval, last_update, pj,
                                  hardware, init_status, bindings>>
              ELSE /\ api_calls' = ApiCalls(fm)
                   /\ update_interval' = UpdateInterval(config)
                   /\ last_update' = None
                   /\ LET api == PiJuiceApi_init(config)
                      IN  IF api.error # ""
                          THEN /\ pc' = "failed"
                               /\ raised' = api.error
                               /\ UNCHANGED <<pj, hardware, init_status, bindings>>
                          ELSE /\ hardware' = hardware \cup
                                      {[bus |-> api.bus, address |-> api.address]}
                               /\ raised' = ""
                               /\ init_status' = Some(get_data_or_error(status))
                               \* the status is read; on an error self.pj is
                               \* dropped and no event is bound
                               /\ IF HasErrorKey(get_data_or_error(status))
                                  THEN /\ pc' = "disabled"
                                       /\ pj' = None
                                       /\ UNCHANGED bindings
                                  ELSE /\ pc' = "bound"
                                       /\ bindings' = Append(bindings, "NEW_LOOP_PACKET")
                                       /\ pj' = Some([bus |-> api.bus,
                                                      address |-> api.address])
    /\ UNCHANGED <<args, printed, supplied, now, packet, resp, polled, prev_update, poll_times, mono>>
    /\ UNCHANGED <<ran, main_vars, archive_vars>>

----------------------------------------------------------------------------
\* PiJuiceService.new_loop_packet and get_pj_data

\* the loop packet a driver emits, stamped with time t
DriverPacket(t) == "dateTime" :> Value(Num(t))

\* the loop packet test_service emits, stamped with time t:
\* {'dateTime': int(time.time()), 'usUnits': weewx.US, 'dummyTemp': 96.3}
TestPacket(t) ==
    ("dateTime" :> Value(Num(t)))
    @@ ("usUnits" :> Value(Num(1)))
    @@ ("dummyTemp" :> Value([num |-> 963, den |-> 10]))

\* the loop packet as the event delivers it, stamped with time t: that of the
\* driver under the engine, that of test_service under --test-service
LoopPacket(t) == IF args.test_service THEN TestPacket(t) ELSE DriverPacket(t)

\* the seconds by which the stamp of a packet is behind int(time.time()) as
\* new_loop_packet reads it: the packet is stamped before it is dispatched
PacketLags == {0, 1}

\* the stamps of the packet of an event that new_loop_packet handles at time t
PacketTimes(t) == {t - lag : lag \in PacketLags} \cap Nat

\* UpdateDue with the update interval left out of the comparison
UpdateDue_NoInterval(lu, interval, t) == IsNone(lu) \/ Get(lu) <= t

\* UpdateDue with the interval required to have been exceeded
UpdateDue_Strict(lu, interval, t) == IsNone(lu) \/ Get(lu) + interval < t

\* is this the first update or has the update interval passed
UpdateDue(lu, interval, t) == IsNone(lu) \/ Get(lu) + interval <= t

\* get_pj_data with a field that has no API property reported as an error
get_pj_data_KeepsUnknown(fm, r) ==
    [field \in Range(fm) |->
        IF field \in DOMAIN api_lookup
        THEN Property(api_lookup[field], r[api_lookup[field]])
        ELSE ErrorDict("UNKNOWN_FIELD")]

\* PiJuiceService.get_pj_data when the PiJuice answers r
get_pj_data(fm, r) ==
    [field \in Range(fm) \cap DOMAIN api_lookup |->
        Property(api_lookup[field], r[api_lookup[field]])]

\* LastUpdateAfter with only the time of the first update saved
LastUpdateAfter_FirstOnly(lu, due, t) == IF due /\ IsNone(lu) THEN Some(t) ELSE lu

\* LastUpdateAfter with the last update forgotten by an event that does not
\* update
LastUpdateAfter_Forgets(lu, due, t) == IF due THEN Some(t) ELSE None

\* LastUpdateAfter with the time of every event saved
LastUpdateAfter_Always(lu, due, t) == Some(t)

\* self.last_update after an event at time t: the time of this update is saved
LastUpdateAfter(lu, due, t) == IF due THEN Some(t) ELSE lu

\* event.packet after the event: the loop packet is updated with the PiJuice data
PacketAfter(pkt, due, pj_data) == IF due THEN Update(pkt, pj_data) ELSE pkt

\* the API responses an event at time t can meet: those of the calls of
\* get_pj_data if the update is due, none otherwise
PollResponses(t) ==
    IF UpdateDue(last_update, update_interval, t)
    THEN ResponseTables(ApiCalls(field_map))
    ELSE {EmptyMap}

\* new_loop_packet with the entries whose reading holds an error removed from
\* the field map
new_loop_packet_DropsFailed(t, d, r) ==
    /\ pc = "bound"
    /\ LET due == UpdateDue(last_update, update_interval, t)
           pj_data == get_pj_data(field_map, r)
       IN  /\ last_update' = LastUpdateAfter(last_update, due, t)
           /\ packet' = PacketAfter(LoopPacket(d), due, pj_data)
           /\ resp' = IF due THEN r ELSE EmptyMap
           /\ polled' = due
           /\ poll_times' = IF due THEN <<poll_times[2], Some(t)>> ELSE poll_times
           /\ field_map' =
                 IF due
                 THEN Without(field_map,
                              {k \in DOMAIN field_map :
                                  /\ field_map[k] \in DOMAIN pj_data
                                  /\ HasErrorKey(pj_data[field_map[k]])})
                 ELSE field_map
    /\ now' = Some(t)
    /\ prev_update' = last_update
    /\ mono' = (mono /\ (IsNone(now) \/ Get(now) <= t))
    /\ raised' = ""
    /\ UNCHANGED <<supplied, config, pc, api_calls, update_interval,
                   pj, hardware, init_status, bindings, args, printed>>
    /\ UNCHANGED <<ran, main_vars, archive_vars>>

\* what new_loop_packet does when it reads the time t, for an event whose
\* packet is stamped d, the PiJuice answering r[c] to API call c
HandleLoopPacket(t, d, r) ==
    /\ pc = "bound"
    /\ LET due == UpdateDue(last_update, update_interval, t)
       IN  /\ last_update' = LastUpdateAfter(last_update, due, t)
           /\ packet' = PacketAfter(LoopPacket(d), due, get_pj_data(field_map, r))
           /\ resp' = IF due THEN r ELSE EmptyMap
           /\ polled' = due
           /\ poll_times' = IF due THEN <<poll_times[2], Some(t)>> ELSE poll_times
    /\ now' = Some(t)
    /\ prev_update' = last_update
    /\ mono' = (mono /\ (IsNone(now) \/ Get(now) <= t))
    /\ raised' = ""
    /\ UNCHANGED <<supplied, config, pc, field_map, api_calls, update_interval,
                   pj, hardware, init_status, bindings, args>>
    /\ UNCHANGED <<ran, main_vars, archive_vars>>

\* a NEW_LOOP_PACKET event under the engine: PiJuiceService.new_loop_packet
new_loop_packet(t, d, r) ==
    /\ HandleLoopPacket(t, d, r)
    /\ UNCHANGED printed

\* the PiJuice fields in the order of the values of the default field map
DefaultOrder ==
    <<"batt_temp", "batt_charge", "batt_voltage", "batt_current", "io_voltage",
      "io_current">>

\* the sets of API calls get_pj_data can have made before the call that
\* raises: it reads the fields in the order of the field map, which for a
\* [[field_map]] stanza is the order of the configuration file
AnsweredBefore(fm) ==
    IF fm = default_field_map
    THEN {{api_lookup[DefaultOrder[i]] : i \in 1..n} : n \in 0..(Len(DefaultOrder) - 1)}
    ELSE SUBSET ApiCalls(fm)

\* the API responses of an event at time t whose poll ends with an API
\* property raising an exception: the calls made before it were answered with
\* data
RaisingResponses(t) ==
    IF UpdateDue(last_update, update_interval, t) /\ ApiCalls(field_map) # {}
    THEN UNION {[calls -> PlainResponses] : calls \in AnsweredBefore(field_map)}
    ELSE {}

\* new_loop_packet_raises with the time of the attempt saved all the same
new_loop_packet_raises_Saves(t, d, r) ==
    /\ pc = "bound"
    /\ UpdateDue(last_update, update_interval, t) = TRUE
    /\ last_update' = Some(t)
    /\ packet' = LoopPacket(d)
    /\ resp' = r
    /\ polled' = FALSE
    /\ raised' = "Exception"
    /\ now' = Some(t)
    /\ prev_update' = last_update
    /\ mono' = (mono /\ (IsNone(now) \/ Get(now) <= t))
    /\ UNCHANGED <<supplied, config, pc, field_map, api_calls, update_interval,
                   pj, hardware, init_status, bindings, args, printed, poll_times>>
    /\ UNCHANGED <<ran, main_vars, archive_vars>>

\* new_loop_packet when an API property raises an exception after the PiJuice
\* answered r: the exception leaves get_pj_data and new_loop_packet before
\* self.last_update and event.packet are touched
new_loop_packet_raises(t, d, r) ==
    /\ pc = "bound"
    /\ UpdateDue(last_update, update_interval, t) = TRUE
    /\ packet' = LoopPacket(d)
    /\ resp' = r
    /\ polled' = FALSE
    /\ raised' = "Exception"
    /\ now' = Some(t)
    /\ prev_update' = last_update
    /\ mono' = (mono /\ (IsNone(now) \/ Get(now) <= t))
    /\ UNCHANGED <<supplied, config, pc, field_map, api_calls, update_interval,
                   last_update, pj, hardware, init_status, bindings, args, printed,
                   poll_times>>
    /\ UNCHANGED <<ran, main_vars, archive_vars>>

----------------------------------------------------------------------------
\* The command line arguments.

\* the argparse arguments when the service runs under the engine
NoArgs ==
    [raw |-> FALSE, test_service |-> FALSE, status |-> FALSE, fault |-> FALSE,
     battery |-> FALSE, io |-> FALSE, rtc |-> FALSE, map |-> FALSE,
     bus |-> None, address |-> None, version |-> FALSE, debug |-> None,
     config_path |-> None]

----------------------------------------------------------------------------
\* class PiJuiceArchive

\* the data bindings of the engine's db_binder
Bindings == {"pj_binding", "wx_binding", "my_binding"}

\* the archive records the engine emits
ArchiveRecords == {"record1", "record2", "record3"}

\* config_dict as PiJuiceArchive reads it: without a [PiJuice] stanza, with a
\* stanza without data_binding option, with a stanza that gives the option
ArchiveConfigs ==
    {None, Some(None)} \cup {Some(Some(b)) : b \in {"my_binding", "wx_binding"}}

\* no record handed to the manager of any binding
NoneAdded == [b \in Bindings |-> <<>>]

\* PiJuiceArchive does not exist
NoArchive ==
    /\ archive_config = None
    /\ data_binding = ""
    /\ added = NoneAdded
    /\ archive_events = <<>>

\* DataBinding with the data_binding option ignored
DataBinding_AlwaysDefault(cfg) == "pj_binding"

\* self.data_binding: config_dict['PiJuice'].get('data_binding', 'pj_binding')
\* if config_dict has a [PiJuice] stanza, else 'pj_binding'
DataBinding(cfg) ==
    IF IsNone(cfg) THEN "pj_binding"
    ELSE IF IsNone(Get(cfg)) THEN "pj_binding"
    ELSE Get(Get(cfg))

\* PiJuiceArchive.__init__: the binding is extracted, setup_database obtains
\* its manager and backfills the daily summaries, which adds no record, and
\* the service binds to NEW_ARCHIVE_RECORD
PiJuiceArchive_init ==
    /\ pc = "archive_init"
    /\ data_binding' = DataBinding(archive_config)
    /\ bindings' = Append(bindings, "NEW_ARCHIVE_RECORD")
    /\ pc' = "archive_bound"
    /\ UNCHANGED <<supplied, config, field_map, api_calls, update_interval,
                   last_update, pj, hardware, raised, init_status, args, printed,
                   ran, now, packet, resp, polled, prev_update, poll_times, mono,
                   archive_config, added, archive_events, main_vars>>

\* PiJuiceArchive.new_archive_record for an event with record rec:
\* get_manager(self.data_binding).addRecord(event.record)
new_archive_record(rec) ==
    /\ pc = "archive_bound"
    /\ Len(archive_events) < MaxRecords
    /\ archive_events' = Append(archive_events, rec)
    /\ added' = [added EXCEPT ![data_binding] = Append(@, rec)]
    /\ UNCHANGED <<supplied, config, pc, field_map, api_calls, update_interval,
                   last_update, pj, hardware, raised, init_status, bindings, args,
                   printed, ran, now, packet, resp, polled, prev_update, poll_times,
                   mono, archive_config, data_binding, main_vars>>

InitArchive ==
    /\ archive_config \in ArchiveConfigs
    /\ data_binding = ""
    /\ added = NoneAdded
    /\ archive_events = <<>>
    /\ config_debug = None
    /\ weewx_debug = 0
    /\ pc = "archive_init"
    /\ config \in {cfg \in BusAddressConfigs : IsNone(cfg.bus) /\ IsNone(cfg.address)}
    /\ supplied = config
    /\ field_map = EmptyMap
    /\ api_calls = {}
    /\ update_interval = 0
    /\ last_update = None
    /\ pj = None
    /\ hardware = {}
    /\ raised = ""
    /\ init_status = None
    /\ bindings = <<>>
    /\ args = NoArgs
    /\ printed = <<>>
    /\ ran = <<>>
    /\ now = None
    /\ packet = EmptyMap
    /\ resp = EmptyMap
    /\ polled = FALSE
    /\ prev_update = None
    /\ poll_times = <<None, None>>
    /\ mono = TRUE

NextArchive ==
    \/ PiJuiceArchive_init
    \/ \E rec \in ArchiveRecords : new_archive_record(rec)

SpecArchive == InitArchive /\ [][NextArchive]_vars

----------------------------------------------------------------------------
\* class DirectPiJuice: the service run directly from the command line.

\* the error codes an API response can hold: those of pj_errors and one that
\* pj_errors does not list
CliErrorCodes == DOMAIN pj_errors \cup {"SOME_OTHER_ERROR"}

\* the data of a status or fault status response, a dict as the sequence of
\* its items
StatusData ==
    {<< <<"battery", "NORMAL">> >>,
     << <<"isFault", "False">>, <<"battery", "CHARGING_FROM_IN">> >>,
     << <<"watchdog_reset", "True">>, <<"charging_temperature_fault", "WARM">> >>}

\* what the PiJuice answers to GetStatus or GetFaultStatus
CliResponses ==
    {RespError(e) : e \in CliErrorCodes}
    \cup {RespData("NO_ERROR", d) : d \in StatusData}

\* what the PiJuice answers to one of the API calls of the battery and input
\* queries: data, an error that pj_errors lists, an error that it does not list
ReadingResponses ==
    PlainResponses \cup {RespError(e) : e \in {"COMMUNICATION_ERROR", "SOME_OTHER_ERROR"}}

\* the data of an RTC time response, a dict as the sequence of its items
RtcData ==
    {<< <<"second", 5>>, <<"minute", 4>>, <<"hour", 3>>, <<"weekday", 5>>,
        <<"day", 2>>, <<"month", 1>>, <<"year", 2020>>, <<"subsecond", 0>>,
        <<"daylightsaving", "NONE">>, <<"storeoperation", FALSE>> >>,
     << <<"second", 59>>, <<"minute", 59>>, <<"hour", 23>>, <<"weekday", 4>>,
        <<"day", 31>>, <<"month", 12>>, <<"year", 2025>>, <<"subsecond", 0>>,
        <<"daylightsaving", "NONE">>, <<"storeoperation", FALSE>> >>}

\* what the PiJuice answers to rtcAlarm.GetTime
RtcResponses ==
    {RespError(e) : e \in {"COMMUNICATION_ERROR", "SOME_OTHER_ERROR"}}
    \cup {RespData("NO_ERROR", d) : d \in RtcData}

\* the query flags of the command line, dest names of the argparse arguments
QueryFlags == {"test_service", "status", "fault", "battery", "io", "rtc", "map"}

\* the argparse arguments with the query flags fs set
Args(fs, raw, bus, address) ==
    [raw |-> raw, test_service |-> "test_service" \in fs, status |-> "status" \in fs,
     fault |-> "fault" \in fs, battery |-> "battery" \in fs, io |-> "io" \in fs,
     rtc |-> "rtc" \in fs, map |-> "map" \in fs, bus |-> bus, address |-> address,
     version |-> FALSE, debug |-> None, config_path |-> None]

\* --bus has type int
BusArgs == {None, Some(IntValue(0)), Some(IntValue(1))}

\* --address is a string
AddressArgs == {None, Some(StrValue("0x15")), Some(StrValue("zz"))}

\* --debug has type int
DebugArgs == {None, Some(IntValue(0)), Some(IntValue(1))}

\* --config, None if it is not given
ConfigPathArgs == {None, Some("/home/weewx/weewx.conf")}

\* the command lines: up to two query flags with or without --raw, no query
\* or the status query with --bus and --address, and no query, the fault
\* query or the service test with --version, --debug and --config
ArgsSets ==
    {Args(fs, raw, None, None) :
        fs \in {f \in SUBSET QueryFlags : Cardinality(f) <= 2}, raw \in BOOLEAN}
    \cup {Args(fs, FALSE, b, a) :
            fs \in {{}, {"status"}}, b \in BusArgs, a \in AddressArgs}
    \cup {[Args(fs, FALSE, None, None) EXCEPT
                !.version = v, !.debug = d, !.config_path = c] :
            fs \in {{}, {"fault"}, {"test_service"}}, v \in BOOLEAN,
            d \in DebugArgs, c \in ConfigPathArgs}

\* the values of the debug option of config_dict, None if it is not given
DebugOptions == {None, Some(StrValue("0")), Some(StrValue("1"))}

\* the [PiJuice] stanza the command line tool reads: one that gives the bus,
\* or one with a [[field_map]] stanza
CliConfigs ==
    {cfg \in BusAddressConfigs : IsNone(cfg.address)}
    \cup {cfg \in PlainConfigs :
            /\ cfg.field_map = Some("batt_volts" :> "batt_voltage")
            /\ IsNone(cfg.field_map_extensions)
            /\ IsNone(cfg.update_interval)}

\* the truth value of an optional command line argument
Truthy(a) ==
    /\ ~IsNone(a)
    /\ IF Get(a).is_str THEN Get(a).s # "" ELSE Get(a).n # 0

\* d.get(k, default)
DictGet(d, k, default) == IF k \in DOMAIN d THEN d[k] ELSE default

\* d[k] for a dict given as the sequence of its items
ItemsGet(items, k) ==
    items[CHOOSE i \in 1..Len(items) : items[i][1] = k][2]

\* a printed line: the format string and the values formatted into it
Line1(fmt) == <<fmt>>

Line2(fmt, a, b) == <<fmt, a, b>>

\* DirectPiJuice.display_error; pj_errors.get() gives None for an error code
\* that pj_errors does not list, which %s formats as "None"
display_error(raw, raw_error_string) ==
    IF raw
    THEN <<"Error: %s", raw_error_string>>
    ELSE Line2("Error: %s (%s)", DictGet(pj_errors, raw_error_string, "None"),
               raw_error_string)

\* the lines get_status and get_fault print for the result res of the property
DisplayItems(res, raw, raw_fmt, fmt, names, states) ==
    IF ~HasErrorKey(res)
    THEN [i \in 1..Len(res.value) |->
            IF raw
            THEN Line2(raw_fmt, res.value[i][1], res.value[i][2])
            ELSE Line2(fmt, DictGet(names, res.value[i][1], res.value[i][1]),
                       DictGet(states, res.value[i][2], res.value[i][2]))]
    ELSE <<display_error(raw, res.error)>>

\* DirectPiJuice.get_status when the PiJuice answers r
get_status(a, r) ==
    <<Line1(""), Line1("PiJuice status:")>>
    \o DisplayItems(get_data_or_error(r), a.raw, "%16s: %s", "%21s: %s",
                    pj_status, pj_states)

\* DirectPiJuice.get_fault when the PiJuice answers r
get_fault(a, r) ==
    <<Line1(""), Line1("PiJuice fault status:")>>
    \o DisplayItems(get_data_or_error(r), a.raw, "%28s: %s", "%56s: %s",
                    pj_fault_status, pj_fault_states)

\* the line get_battery and get_io print at once for a reading x that is no
\* dict; the milli-unit readings are divided by 1000.0
ValueLine(x, fmt, label, milli) ==
    IF HasErrorKey(x) THEN <<>>
    ELSE <<Line2(fmt, label, IF milli THEN Div1000(x.value) ELSE x.value)>>

\* ErrorLine with the error of the reading dropped
ErrorLine_Dropped(a, x) == <<>>

\* the error string get_battery and get_io keep for a reading x that holds an
\* error, and print after the values
ErrorLine(a, x) ==
    IF HasErrorKey(x) THEN <<display_error(a.raw, x.error)>> ELSE <<>>

\* the API calls of get_battery, in the order of its readings
BatteryCalls ==
    <<"charge_level", "battery_voltage", "battery_current", "battery_temperature">>

\* the API calls of get_io, in the order of its readings
IoCalls == <<"io_voltage", "io_current">>

\* DirectPiJuice.get_battery when the PiJuice answers r[c] to API call c
get_battery(a, r) ==
    LET charge == Property("charge_level", r["charge_level"])
        voltage == Property("battery_voltage", r["battery_voltage"])
        current == Property("battery_current", r["battery_current"])
        temp == Property("battery_temperature", r["battery_temperature"])
    IN  <<Line1(""), Line1("PiJuice battery state:")>>
        \o ValueLine(charge, "%12s: %d%%", "Charge", FALSE)
        \o ValueLine(voltage, "%12s: %.3fV", "Voltage", TRUE)
        \o ValueLine(current, "%12s: %.3fA", "Current", TRUE)
        \o ValueLine(temp, "%12s: %d\\xb0C", "Temperature", FALSE)
        \o ErrorLine(a, charge) \o ErrorLine(a, voltage)
        \o ErrorLine(a, current) \o ErrorLine(a, temp)

\* DirectPiJuice.get_io when the PiJuice answers r[c] to API call c
get_io(a, r) ==
    LET voltage == Property("io_voltage", r["io_voltage"])
        current == Property("io_current", r["io_current"])
    IN  <<Line1(""), Line1("PiJuice input state:")>>
        \o ValueLine(voltage, "%12s: %.3fV", "Voltage", TRUE)
        \o ValueLine(current, "%12s: %.3fA", "Current", TRUE)
        \o ErrorLine(a, voltage) \o ErrorLine(a, current)

\* datetime constructor arguments filtered from the RTC time
dt_args == {"year", "month", "day", "hour", "minute", "second"}

\* the days from 1970-01-01 to the day d of month m of year y
DaysFromEpoch(y, m, d) ==
    LET yy == IF m <= 2 THEN y - 1 ELSE y
        era == yy \div 400
        yoe == yy - era * 400
        mp == IF m > 2 THEN m - 3 ELSE m + 9
        doy == (153 * mp + 2) \div 5 + d - 1
        doe == yoe * 365 + yoe \div 4 - yoe \div 100 + doy
    IN  era * 146097 + doe - 719468

\* calendar.timegm(dt.timetuple()) for the UTC date-time dt
timegm(dt) ==
    DaysFromEpoch(dt["year"], dt["month"], dt["day"]) * 86400
    + dt["hour"] * 3600 + dt["minute"] * 60 + dt["second"]

\* datetime.datetime.fromtimestamp(ts): the local time of timestamp ts, which
\* depends on the time zone of the machine
fromtimestamp(ts) == <<"fromtimestamp", ts>>

\* dt.strftime(fmt)
strftime(dt, fmt) == <<fmt, dt>>

\* DirectPiJuice.get_rtc when the PiJuice answers r
get_rtc(a, r) ==
    LET res == get_data_or_error(r)
    IN  <<Line1("")>>
        \o IF ~HasErrorKey(res)
           THEN IF a.raw
                THEN <<Line1("PiJuice RTC date-time (UTC):")>>
                     \o [i \in 1..Len(res.value) |->
                            Line2("%16s: %s", res.value[i][1], res.value[i][2])]
                ELSE LET utc_date_time_dt == [k \in dt_args |-> ItemsGet(res.value, k)]
                         date_time_ts == timegm(utc_date_time_dt)
                     IN  <<Line1("PiJuice RTC date-time:"),
                           <<"%10s: %s (%s)", "GMT",
                             strftime(utc_date_time_dt, "%A %-d %B %Y %H:%M:%S"),
                             date_time_ts>>,
                           Line2("%10s: %s", "Local",
                                 strftime(fromtimestamp(date_time_ts),
                                          "%A %-d %B %Y %H:%M:%S"))>>
           ELSE <<display_error(a.raw, res.error)>>

\* the field names of the model in natural sort order; none holds a digit, so
\* the order is that of the lower case strings
NaturalOrder ==
    <<"batt_volts", "io_current", "io_voltage", "ups_charge", "ups_current",
      "ups_temp", "ups_voltage">>

\* natural_sort_keys: the naturally sorted list of the keys of a dict
natural_sort_keys(source_dict) ==
    SelectSeq(NaturalOrder, LAMBDA k : k \in DOMAIN source_dict)

\* the lines display_field_map prints for the field map fm
FieldMapLines(fm) ==
    LET keys_list == natural_sort_keys(fm)
    IN  <<Line1(""), Line1("PiJuice service default field map:"),
          Line1("(format is WeeWX field name: PiJuice field name)"), Line1("")>>
        \o [i \in 1..Len(keys_list) |->
                Line2("    %23s: %s", keys_list[i], fm[keys_list[i]])]

\* display_field_map with the field map resolved from the configuration
display_field_map_Active == FieldMapLines(ResolveFieldMap(config))

\* DirectPiJuice.display_field_map, a static method: a copy of
\* PiJuiceService.default_field_map is printed
display_field_map == FieldMapLines(default_field_map)

pj_service_version == "0.1.0"

\* the configuration file weecfg.read_config reads when --config is not given
DefaultConfigPath == "/etc/weewx/weewx.conf"

\* weeutil.weeutil.to_int for an integer or a decimal string
to_int(x) == IF x.is_str THEN IntLiterals[x.s] ELSE x.n

\* main up to the creation of the DirectPiJuice object: with --version the
\* version is printed and the tool exits; else the configuration is read and
\* its path printed, and weewx.debug is set from --debug or, without it, from
\* the debug option of the configuration, and printed if it is above 0
main ==
    /\ pc = "main"
    /\ IF args.version
       THEN /\ printed' = printed \o
                    << <<"pijuice service version: %s", pj_service_version>> >>
            /\ pc' = "exited"
            /\ UNCHANGED weewx_debug
       ELSE LET config_path == IF IsNone(args.config_path) THEN DefaultConfigPath
                               ELSE Get(args.config_path)
                debug == IF ~IsNone(args.debug) THEN to_int(Get(args.debug))
                         ELSE IF IsNone(config_debug) THEN 0
                         ELSE to_int(Get(config_debug))
            IN  /\ printed' = printed
                       \o << <<"Using configuration file %s", config_path>> >>
                       \o (IF debug > 0 THEN << <<"debug level is '%d'", debug>> >>
                           ELSE <<>>)
                /\ weewx_debug' = debug
                /\ pc' = "direct"
    /\ UNCHANGED <<supplied, config, field_map, api_calls, update_interval,
                   last_update, pj, hardware, raised, init_status, bindings, args,
                   ran, now, packet, resp, polled, prev_update, poll_times, mono,
                   config_debug>>
    /\ UNCHANGED archive_vars

\* DirectPiJuice.__init__: the command line overrides bus and address of the
\* service dict, then the PiJuiceApi object is created
DirectPiJuice_init ==
    /\ pc = "direct"
    /\ LET service_dict ==
               [config EXCEPT !.bus = IF Truthy(args.bus) THEN args.bus ELSE @,
                              !.address = IF Truthy(args.address) THEN args.address
                                          ELSE @]
           api == PiJuiceApi_init(service_dict)
       IN  /\ config' = service_dict
           /\ IF api.error # ""
              THEN /\ pc' = "failed"
                   /\ raised' = api.error
                   /\ UNCHANGED <<pj, hardware>>
              ELSE /\ pc' = "ready"
                   /\ pj' = Some([bus |-> api.bus, address |-> api.address])
                   /\ hardware' = hardware \cup
                          {[bus |-> api.bus, address |-> api.address]}
                   /\ UNCHANGED raised
    /\ UNCHANGED <<supplied, field_map, api_calls, update_interval, last_update,
                   init_status, bindings, args, printed, now, packet, resp, polled,
                   prev_update, poll_times, mono>>
    /\ UNCHANGED <<ran, main_vars, archive_vars>>

\* the if/elif chain of process_options: the handler of the first flag that
\* is set, "" if none is
FirstQuery(a) ==
    IF a.test_service THEN "test_service"
    ELSE IF a.status THEN "status"
    ELSE IF a.fault THEN "fault"
    ELSE IF a.battery THEN "battery"
    ELSE IF a.io THEN "io"
    ELSE IF a.rtc THEN "rtc"
    ELSE IF a.map THEN "map"
    ELSE ""

\* the lines the handler q prints before it returns, when the PiJuice answers
\* r[c] to API call c; test_service is followed step by step below
HandlerOutput(q, a, r) ==
    CASE q = "status" -> get_status(a, r["status"])
      [] q = "fault" -> get_fault(a, r["fault_status"])
      [] q = "battery" -> get_battery(a, r)
      [] q = "io" -> get_io(a, r)
      [] q = "rtc" -> get_rtc(a, r["rtc_time"])
      [] q = "map" -> display_field_map
      [] OTHER -> <<>>

\* DirectPiJuice.process_options: the handler of the first flag set is called
\* and then exit(0); with no flag set the method returns.  test_service first
\* has the dummy engine construct PiJuiceService from the service dict.
process_options(r) ==
    /\ pc = "ready"
    /\ LET q == FirstQuery(args)
       IN  /\ ran' = IF q = "" THEN ran ELSE Append(ran, q)
           /\ printed' = printed \o HandlerOutput(q, args, r)
           /\ resp' = r
           /\ pc' = IF q = "" THEN "returned"
                    ELSE IF q = "test_service" THEN "init"
                    ELSE "exited"
    /\ UNCHANGED <<supplied, config, field_map, api_calls, update_interval,
                   last_update, pj, hardware, raised, init_status, bindings, args,
                   now, packet, polled, prev_update, poll_times, mono>>
    /\ UNCHANGED <<main_vars, archive_vars>>

\* the responses process_options can meet: those of the API calls of the
\* handler it calls
QueryResponses ==
    LET q == FirstQuery(args)
    IN  CASE q = "status" -> [{"status"} -> CliResponses]
          [] q = "fault" -> [{"fault_status"} -> CliResponses]
          [] q = "battery" -> [Range(BatteryCalls) -> ReadingResponses]
          [] q = "io" -> [Range(IoCalls) -> ReadingResponses]
          [] q = "rtc" -> [{"rtc_time"} -> RtcResponses]
          [] OTHER -> {EmptyMap}

\* test_service has printed the line that identifies the PiJuice
Identified ==
    \E i \in 1..Len(printed) :
        printed[i][1] = "Interrogating PiJuice at bus '%d' address '0x%02X'"

\* test_service once the engine has constructed the services: the PiJuice in
\* use is identified.  pj_svc.pj is None if the service found an error in the
\* status it read, and pj_svc.pj.bus then raises AttributeError, which is not
\* caught: the engine is shut down and the exception leaves process_options.
test_service_identify ==
    /\ pc \in {"bound", "disabled"}
    /\ ran = <<"test_service">>
    /\ ~Identified
    /\ IF IsNone(pj)
       THEN /\ printed' = printed \o <<Line1("")>>
            /\ raised' = "AttributeError"
            /\ pc' = "crashed"
       ELSE /\ printed' = printed \o
                <<Line1(""),
                  Line2("Interrogating PiJuice at bus '%d' address '0x%02X'",
                        Get(pj).bus, Get(pj).address),
                  Line1("")>>
            /\ UNCHANGED <<raised, pc>>
    /\ UNCHANGED <<supplied, config, field_map, api_calls, update_interval,
                   last_update, pj, hardware, init_status, bindings, args, ran,
                   now, packet, resp, polled, prev_update, poll_times, mono>>
    /\ UNCHANGED <<main_vars, archive_vars>>

\* the line weewx.engine.StdPrint prints for a loop packet
StdPrint(pkt) == <<"LOOP:   %s", pkt>>

\* the loop packets test_service has emitted
Emitted == Cardinality({i \in 1..Len(printed) : printed[i][1] = "LOOP:   %s"})

\* the loop of test_service: a loop packet is stamped and dispatched to the
\* services of the dummy engine, PiJuiceService.new_loop_packet augments it
\* and StdPrint prints it
test_service_loop(t, d, r) ==
    /\ ran = <<"test_service">>
    /\ Identified
    /\ Emitted < MaxPackets
    /\ HandleLoopPacket(t, d, r)
    /\ printed' = Append(printed, StdPrint(packet'))

\* test_service is interrupted from the keyboard while the engine is created,
\* the PiJuice identified or loop packets emitted: the message is printed, the
\* engine, if there is one, shut down, and process_options exits
test_service_interrupt ==
    /\ pc \in {"init", "bound", "disabled"}
    /\ ran = <<"test_service">>
    /\ printed' = printed \o <<Line1(""), Line1("PiJuice service testing complete")>>
    /\ pc' = "exited"
    /\ UNCHANGED <<supplied, config, field_map, api_calls, update_interval,
                   last_update, pj, hardware, raised, init_status, bindings, args,
                   ran, now, packet, resp, polled, prev_update, poll_times, mono>>
    /\ UNCHANGED <<main_vars, archive_vars>>

\* main after process_options returned: parser.print_help()
print_help ==
    /\ pc = "returned"
    /\ printed' = printed \o <<Line1("usage: %(usage)s")>>
    /\ pc' = "done"
    /\ UNCHANGED <<supplied, config, field_map, api_calls, update_interval,
                   last_update, pj, hardware, raised, init_status, bindings, args,
                   ran, now, packet, resp, polled, prev_update, poll_times, mono>>
    /\ UNCHANGED <<main_vars, archive_vars>>

InitCli ==
    /\ config \in CliConfigs
    /\ supplied = config
    /\ args \in ArgsSets
    /\ config_debug \in DebugOptions
    /\ weewx_debug = 0
    /\ pc = "main"
    /\ printed = <<>>
    /\ ran = <<>>
    /\ field_map = EmptyMap
    /\ api_calls = {}
    /\ update_interval = 0
    /\ last_update = None
    /\ pj = None
    /\ hardware = {}
    /\ raised = ""
    /\ init_status = None
    /\ bindings = <<>>
    /\ now = None
    /\ packet = EmptyMap
    /\ resp = EmptyMap
    /\ polled = FALSE
    /\ prev_update = None
    /\ poll_times = <<None, None>>
    /\ mono = TRUE
    /\ NoArchive

\* the command line tool: the PiJuiceApi object is created and the options
\* are processed; under --test-service the service is constructed, the
\* PiJuice identified and loop packets emitted until the keyboard interrupt
NextCli ==
    \/ main
    \/ DirectPiJuice_init
    \/ \E r \in QueryResponses : process_options(r)
    \/ \E status \in Responses : PiJuiceService_init(status)
    \/ test_service_identify
    \/ \E t \in 0..MaxTime : \E d \in PacketTimes(t) : \E r \in PollResponses(t) :
          test_service_loop(t, d, r)
    \/ test_service_interrupt
    \/ print_help

SpecCli == InitCli /\ [][NextCli]_vars

----------------------------------------------------------------------------
\* The service's life: construction, then loop packet events.

Init ==
    /\ config \in Configs
    /\ supplied = config
    /\ pc = "init"
    /\ field_map = EmptyMap
    /\ api_calls = {}
    /\ update_interval = 0
    /\ last_update = None
    /\ pj = None
    /\ hardware = {}
    /\ raised = ""
    /\ init_status = None
    /\ bindings = <<>>
    /\ args = NoArgs
    /\ printed = <<>>
    /\ ran = <<>>
    /\ now = None
    /\ packet = EmptyMap
    /\ resp = EmptyMap
    /\ polled = FALSE
    /\ prev_update = None
    /\ poll_times = <<None, None>>
    /\ mono = TRUE
    /\ NoArchive
    /\ config_debug = None
    /\ weewx_debug = 0

Next ==
    \/ \E status \in Responses : PiJuiceService_init(status)
    \/ \E t \in 0..MaxTime : \E d \in PacketTimes(t) : \E r \in PollResponses(t) :
          new_loop_packet(t, d, r)

Spec == Init /\ [][Next]_vars

\* the configurations of the service whose API properties can raise: the
\* default field map or a [[field_map]] stanza without extensions, with any
\* update interval
RaiseConfigs ==
    {cfg \in PlainConfigs :
        /\ IsNone(cfg.field_map_extensions)
        /\ DOMAIN cfg.section = {}
        /\ IsNone(cfg.field_map) \/ Section \notin Range(Get(cfg.field_map))}

InitRaise == Init /\ config \in RaiseConfigs

\* the service with API properties that can raise
NextRaise ==
    \/ Next
    \/ \E t \in 0..MaxTime : \E d \in PacketTimes(t) : \E r \in RaisingResponses(t) :
          new_loop_packet_raises(t, d, r)

SpecRaise == InitRaise /\ [][NextRaise]_vars

----------------------------------------------------------------------------
\* Field map resolution.

\* construction has assigned self.field_map
Resolved == pc # "init"

\* a loop packet event has been handled
Handled == ~IsNone(now)

\* the packet of the latest event as the event delivered it: new_loop_packet
\* leaves the stamp of the packet as it is
Delivered == LoopPacket(packet["dateTime"].value.num)

\* the [[field_map_extensions]] stanza the configuration supplied, {} if none
SuppliedExtensions ==
    IF IsNone(supplied.field_map_extensions) THEN EmptyMap
    ELSE Get(supplied.field_map_extensions)

\* C1: with a non-empty [[field_map_extensions]] stanza and no [[field_map]]
\* stanza the resolved field map holds every extension entry and no default
\* entry whose PiJuice field an extension maps.
C1_ExtensionsOverDefault ==
    (Resolved /\ IsNone(supplied.field_map) /\ DOMAIN SuppliedExtensions # {}) =>
        /\ \A k \in DOMAIN SuppliedExtensions :
              k \in DOMAIN field_map /\ field_map[k] = SuppliedExtensions[k]
        /\ \A k \in DOMAIN default_field_map \ DOMAIN SuppliedExtensions :
              default_field_map[k] \in Range(SuppliedExtensions) => k \notin DOMAIN field_map

\* C2: with a non-empty [[field_map_extensions]] stanza the resolved field map
\* never maps two distinct WeeWX fields to one PiJuice field that the
\* extensions map.
C2_NoDuplicateSource ==
    (Resolved /\ DOMAIN SuppliedExtensions # {}) =>
        \A k1, k2 \in DOMAIN field_map :
            (k1 # k2 /\ field_map[k1] = field_map[k2]) =>
                field_map[k1] \notin Range(SuppliedExtensions)

\* the built-in default field map, entry by entry
C3_BuiltIn ==
    ("ups_temp" :> "batt_temp") @@ ("ups_charge" :> "batt_charge")
    @@ ("ups_voltage" :> "batt_voltage") @@ ("ups_current" :> "batt_current")
    @@ ("io_voltage" :> "io_voltage") @@ ("io_current" :> "io_current")

\* C3: with neither a [[field_map]] stanza nor field map extensions the
\* resolved field map is exactly the built-in default field map.
C3_DefaultFieldMap ==
    (Resolved /\ IsNone(supplied.field_map) /\ DOMAIN SuppliedExtensions = {}) =>
        field_map = C3_BuiltIn

\* a service constructed and bound without [[field_map]] and without extensions
C3_Witness ==
    /\ pc = "bound"
    /\ IsNone(supplied.field_map)
    /\ IsNone(supplied.field_map_extensions)
    /\ Cardinality(DOMAIN field_map) = 6

\* C10: with an empty [[field_map]] stanza and no field map extensions the
\* resolved field map equals the default field map.
C10_EmptyFieldMapIsDefault ==
    (/\ Resolved
     /\ ~IsNone(supplied.field_map)
     /\ DOMAIN Get(supplied.field_map) = {}
     /\ DOMAIN SuppliedExtensions = {}) =>
        field_map = default_field_map

\* C11: with a non-empty [[field_map]] stanza and no field map extensions
\* the resolved field map is exactly the supplied map, so holds no entry of
\* the default field map that the supplied map does not hold.
C11_ReplacementIsExact ==
    (/\ Resolved
     /\ ~IsNone(supplied.field_map)
     /\ DOMAIN Get(supplied.field_map) # {}
     /\ "field_map_extensions" \notin DOMAIN Get(supplied.field_map)
     /\ DOMAIN SuppliedExtensions = {}) =>
        /\ field_map = Get(supplied.field_map)
        /\ \A k \in DOMAIN default_field_map \ DOMAIN Get(supplied.field_map) :
              k \notin DOMAIN field_map

\* a service bound with a one entry [[field_map]] stanza and no extensions
C11_Witness ==
    /\ pc = "bound"
    /\ ~IsNone(supplied.field_map)
    /\ IsNone(supplied.field_map_extensions)
    /\ field_map = ("batt_volts" :> "batt_voltage")

\* C12: every entry of a non-empty [[field_map_extensions]] stanza is an
\* entry of the resolved field map, whatever the base field map; a WeeWX
\* field of both maps is mapped to the PiJuice field the extensions give.
C12_ExtensionsWin ==
    (Resolved /\ DOMAIN SuppliedExtensions # {}) =>
        \A k \in DOMAIN SuppliedExtensions :
            k \in DOMAIN field_map /\ field_map[k] = SuppliedExtensions[k]

\* C13: after construction the configuration, the [[field_map]] stanza it
\* holds included, is equal to what it was before construction.
C13_InputsUntouched ==
    Resolved => config = supplied

\* C14: once construction has finished no step changes the resolved field
\* map.
C14_FieldMapFrozen ==
    [][Resolved => field_map' = field_map]_vars

\* a second or later poll in which a reading held an error, the field map
\* still being the one of a [[field_map]] stanza
C14_Witness ==
    /\ Handled
    /\ polled
    /\ ~IsNone(prev_update)
    /\ \E p \in DOMAIN resp : ~resp[p].has_data
    /\ ~IsNone(supplied.field_map)
    /\ field_map = Get(supplied.field_map)

----------------------------------------------------------------------------
\* The poll gate.

\* C4: a loop packet event at time now polls the PiJuice exactly when there
\* was no last update or now >= last update + update interval.
C4_PollGate ==
    Handled =>
        (polled <=> (IsNone(prev_update)
                     \/ Get(now) >= Get(prev_update) + update_interval))

\* an event exactly update_interval > 0 after the last update, which polled
C4_Witness ==
    /\ Handled
    /\ ~IsNone(prev_update)
    /\ update_interval > 0
    /\ Get(now) = Get(prev_update) + update_interval
    /\ polled

\* C5: while event timestamps are non-decreasing, two successive polls are
\* at least update_interval seconds apart.
C5_PollSpacing ==
    (mono /\ ~IsNone(poll_times[1]) /\ ~IsNone(poll_times[2])) =>
        Get(poll_times[2]) - Get(poll_times[1]) >= update_interval

\* two successive polls exactly update_interval > 0 apart, a throttled event
\* having come in between or not
C5_Witness ==
    /\ mono
    /\ ~IsNone(poll_times[1])
    /\ update_interval > 0
    /\ Get(poll_times[2]) - Get(poll_times[1]) = update_interval

\* C6: after an event at time now whose poll attempt went ahead last_update
\* is now, whatever the PiJuice answered.
C6_LastUpdateSaved ==
    (Handled /\ polled) => last_update = now

\* a second or later poll in which every API call made returned an error dict
C6_Witness ==
    /\ Handled
    /\ polled
    /\ ~IsNone(prev_update)
    /\ DOMAIN resp # {}
    /\ \A p \in DOMAIN resp : ~resp[p].has_data
    /\ last_update = now

\* C15: an event the gate throttles (there was a last update and now is
\* before last update + update interval) makes no API call and leaves the
\* loop packet of the event and last_update as they were.
C15_ThrottledNoEffect ==
    (/\ Handled
     /\ ~IsNone(prev_update)
     /\ Get(now) < Get(prev_update) + update_interval) =>
        /\ ~polled
        /\ DOMAIN resp = {}
        /\ packet = Delivered
        /\ last_update = prev_update

\* an event one second before the update interval has passed
C15_Witness ==
    /\ Handled
    /\ ~IsNone(prev_update)
    /\ Get(now) + 1 = Get(prev_update) + update_interval
    /\ ~polled
    /\ last_update = prev_update

\* C28: last_update is None or the time of the latest event that polled; a
\* step changes it only by a poll of new_loop_packet, which sets it to the
\* time of the event; once set it is never None again, and while event
\* timestamps are non-decreasing it never decreases.
C28_LastUpdateHistory ==
    /\ [](IsNone(last_update) \/ last_update = poll_times[2])
    /\ [][last_update' # last_update =>
            (polled' /\ last_update' = now' /\ poll_times' # poll_times)]_vars
    /\ [][~IsNone(last_update) => ~IsNone(last_update')]_vars
    /\ [][(mono' /\ ~IsNone(last_update)) =>
            Get(last_update') >= Get(last_update)]_vars

\* a later poll at a later time, then an event that did not poll
C28_Witness ==
    /\ mono
    /\ Handled
    /\ ~polled
    /\ ~IsNone(poll_times[1])
    /\ Get(poll_times[2]) > Get(poll_times[1])
    /\ last_update = poll_times[2]
    /\ Get(now) >= Get(last_update)

\* the poll of the latest loop packet event ended with an exception
PollRaised == Handled /\ raised = "Exception"

\* C27: a loop packet event whose poll ends with an API property raising
\* leaves last_update and the loop packet as they were, and the next event,
\* if not earlier in time, attempts a poll again.
C27_RaisingPollRetried ==
    /\ [](PollRaised =>
            /\ last_update = prev_update
            /\ packet = Delivered
            /\ ~polled)
    /\ [][(PollRaised /\ Get(now') >= Get(now)) => (polled' \/ PollRaised')]_vars

\* a poll that raised at or after last update + update interval > last
\* update, some API calls having been answered before
C27_Witness ==
    /\ PollRaised
    /\ ~IsNone(last_update)
    /\ update_interval > 0
    /\ Get(now) >= Get(last_update) + update_interval
    /\ DOMAIN resp # {}

----------------------------------------------------------------------------
\* Readings and the data merged into the loop packet.

\* the result of the PiJuiceApi property that provides PiJuice field src, as
\* obtained during the latest poll
Reading(src) == Property(api_lookup[src], resp[api_lookup[src]])

\* the entries of the field map whose PiJuice field has an API property
KnownEntries == {out \in DOMAIN field_map : field_map[out] \in DOMAIN api_lookup}

\* C7: get_data_or_error returns the data only for a response whose error
\* code is NO_ERROR and the dict {'error': code} for every other error code,
\* whether or not the response holds data.
C7_DataOnlyWhenNoError ==
    \A p \in DOMAIN resp :
        get_data_or_error(resp[p]) =
            IF resp[p].error = "NO_ERROR" /\ resp[p].has_data
            THEN Value(resp[p].data)
            ELSE ErrorDict(resp[p].error)

\* C8: after a poll in which an API property returned an error dict the
\* loop packet has no entry for the field of that property and no entry at
\* all whose value is an error dict.
C8_ErrorFieldOmitted ==
    (Handled /\ polled) =>
        /\ \A k \in DOMAIN packet : ~packet[k].is_error
        /\ \A out \in KnownEntries :
              HasErrorKey(Reading(field_map[out])) => out \notin DOMAIN packet

\* C9: after a poll the loop packet holds, for every field map entry
\* out -> src whose src has an API property, the reading of src under key
\* out, and the poll adds no key that is not a WeeWX field of the field map.
C9_MappedNames ==
    (Handled /\ polled) =>
        /\ \A out \in KnownEntries :
              ~HasErrorKey(Reading(field_map[out])) =>
                  out \in DOMAIN packet /\ packet[out] = Reading(field_map[out])
        /\ DOMAIN packet \ DOMAIN Delivered \subseteq DOMAIN field_map

\* the PiJuice fields of the field map that have no API property
UnknownFields == Range(field_map) \ DOMAIN api_lookup

\* C16: a field map entry whose PiJuice field has no API property stays in
\* the resolved field map, and a poll skips it alone: no API call is made and
\* no data produced for it, and every PiJuice field that has an API property
\* is read and its reading merged into the loop packet.
C16_UnknownFieldSkipped ==
    /\ (/\ Resolved
        /\ ~IsNone(supplied.field_map)
        /\ "field_map_extensions" \notin DOMAIN Get(supplied.field_map)) =>
            \A k \in DOMAIN Get(supplied.field_map) :
                Get(supplied.field_map)[k] \notin DOMAIN api_lookup =>
                    k \in DOMAIN field_map /\ field_map[k] = Get(supplied.field_map)[k]
    /\ (Handled /\ polled) =>
            /\ DOMAIN resp = ApiCalls(field_map)
            /\ DOMAIN packet \cap UnknownFields = {}
            /\ \A src \in Range(field_map) \cap DOMAIN api_lookup :
                  /\ api_lookup[src] \in DOMAIN resp
                  /\ src \in DOMAIN packet
                  /\ packet[src] = Reading(src)

\* a poll with a field map of one entry that has an API property and one
\* that has none
C16_Witness ==
    /\ Handled
    /\ polled
    /\ field_map = ("ups_voltage" :> "batt_voltage") @@ ("batt_volts" :> "bogus")
    /\ DOMAIN resp = {"battery_voltage"}
    /\ "batt_voltage" \in DOMAIN packet

\* C18: for an API response without data every property returns the dict
\* {'error': code} with the error code of the response, the properties that
\* convert milli-units included.
C18_ErrorCodeCarried ==
    (Handled /\ polled) =>
        \A src \in Range(field_map) \cap DOMAIN api_lookup :
            ~resp[api_lookup[src]].has_data =>
                Reading(src) = [is_error |-> TRUE,
                                error |-> resp[api_lookup[src]].error,
                                value |-> Num(0)]

\* a poll in which battery_voltage, which converts milli-units, met a
\* response without data
C18_Witness ==
    /\ Handled
    /\ polled
    /\ "battery_voltage" \in DOMAIN resp
    /\ ~resp["battery_voltage"].has_data
    /\ resp["battery_voltage"].error = "COMMUNICATION_ERROR"
    /\ packet["batt_voltage"].is_error

\* the properties C19 names as converting milli-units
C19_MilliUnit == {"battery_voltage", "battery_current", "io_voltage", "io_current"}

\* C19: for a NO_ERROR response with integer data d the four milli-unit
\* properties return d / 1000, divided once, and battery_temperature and
\* charge_level return d.
C19_MilliOnce ==
    (Handled /\ polled) =>
        \A src \in Range(field_map) \cap DOMAIN api_lookup :
            LET r == resp[api_lookup[src]]
            IN  (r.error = "NO_ERROR" /\ r.has_data /\ r.data.den = 1) =>
                    Reading(src) =
                        [is_error |-> FALSE, error |-> "",
                         value |-> [num |-> r.data.num,
                                    den |-> IF api_lookup[src] \in C19_MilliUnit
                                            THEN 1000 ELSE 1]]

\* a poll of all six properties that answered 4050 with NO_ERROR: the
\* battery voltage is 4050/1000, the battery temperature 4050
C19_Witness ==
    /\ Handled
    /\ polled
    /\ DOMAIN resp = Range(api_lookup)
    /\ \A p \in DOMAIN resp : resp[p] = RespData("NO_ERROR", Num(4050))
    /\ packet["batt_voltage"].value = [num |-> 4050, den |-> 1000]
    /\ packet["batt_temp"].value = [num |-> 4050, den |-> 1]

\* C29: the resolved field map never holds the extensions section as an
\* entry: it has no key field_map_extensions and no value that is a section,
\* whether the section is nested in the [[field_map]] stanza or not.
C29_NoSectionEntry ==
    Resolved =>
        /\ "field_map_extensions" \notin DOMAIN field_map
        /\ Section \notin Range(field_map)

----------------------------------------------------------------------------
\* The status read at construction.

\* C21: if the status read at construction held an error the service has
\* dropped its PiJuiceApi object and is bound to no event, no loop packet is
\* ever handled and no API call ever made; otherwise the service is bound to
\* NEW_LOOP_PACKET, once.
C21_DisabledOnStatusError ==
    ~IsNone(init_status) =>
        IF Get(init_status).is_error
        THEN /\ IsNone(pj)
             /\ bindings = <<>>
             /\ ~Handled
             /\ DOMAIN resp = {}
             /\ packet = EmptyMap
        ELSE /\ ~IsNone(pj)
             /\ bindings = <<"NEW_LOOP_PACKET">>

\* a service that read an error dict as its status
C21_Witness ==
    /\ ~IsNone(init_status)
    /\ Get(init_status) = ErrorDict("COMMUNICATION_ERROR")
    /\ pc = "disabled"
    /\ IsNone(pj)
    /\ hardware # {}

----------------------------------------------------------------------------
\* The archive service.

\* C26: the records handed to the manager of the configured data binding
\* (pj_binding without the option) are the records of the archive record
\* events so far, one for each event and in their order, and no record is
\* handed to the manager of any other binding.
C26_OneRowPerArchiveEvent ==
    LET binding ==
            IF ~IsNone(archive_config) /\ ~IsNone(Get(archive_config))
            THEN Get(Get(archive_config)) ELSE "pj_binding"
    IN  /\ added[binding] = archive_events
        /\ \A b \in Bindings \ {binding} : added[b] = <<>>
        /\ pc = "archive_bound" => bindings = <<"NEW_ARCHIVE_RECORD">>
        /\ pc = "archive_init" => archive_events = <<>>

\* three archive record events, one record coming twice, with the binding
\* my_binding configured
C26_Witness ==
    /\ pc = "archive_bound"
    /\ archive_config = Some(Some("my_binding"))
    /\ archive_events = <<"record2", "record1", "record2">>
    /\ added["my_binding"] = <<"record2", "record1", "record2">>

----------------------------------------------------------------------------
\* The command line tool's display of an API error.

\* the status or fault status asked for was answered with an error dict
ErrorDisplayed ==
    /\ pc = "exited"
    /\ ran \in {<<"status">>, <<"fault">>}
    /\ \E p \in DOMAIN resp : ~resp[p].has_data

\* the error code of that answer
DisplayedCode == resp[CHOOSE p \in DOMAIN resp : TRUE].error

\* C17: the error line shows, without --raw, the plain English meaning of the
\* error code followed by the code in brackets, the code itself taking the
\* place of the meaning if pj_errors does not list it, and with --raw the
\* code alone.
C17_ErrorRendering ==
    ErrorDisplayed =>
        printed[Len(printed)] =
            IF args.raw
            THEN <<"Error: %s", DisplayedCode>>
            ELSE <<"Error: %s (%s)",
                   IF DisplayedCode \in DOMAIN pj_errors
                   THEN pj_errors[DisplayedCode] ELSE DisplayedCode,
                   DisplayedCode>>

----------------------------------------------------------------------------
\* Start-up with a bus or address that is no integer.

\* the configuration gives a bus or an address that int() does not convert
InvalidBusOrAddress ==
    \/ ~IsNone(supplied.bus) /\ IsNone(ToInt(Get(supplied.bus)))
    \/ ~IsNone(supplied.address) /\ IsNone(ToInt(Get(supplied.address)))

\* C20 as stated: with a bus or address that is no integer construction makes
\* no pijuice.PiJuice object, binds no event, and ends without an exception
\* reaching the engine that constructs the service.
C20_FatalToServiceOnly ==
    (Resolved /\ InvalidBusOrAddress) =>
        /\ hardware = {}
        /\ pc # "bound"
        /\ raised = ""

\* C20 amended: with a bus or address that is no integer construction makes
\* no pijuice.PiJuice object, binds no event, and ends with the Invalid bus
\* or Invalid address exception leaving PiJuiceService.__init__.
C20_InvalidBusAddressRaises ==
    (Resolved /\ InvalidBusOrAddress) =>
        /\ hardware = {}
        /\ IsNone(pj)
        /\ pc = "failed"
        /\ ~Handled
        /\ raised = (IF ~IsNone(supplied.bus) /\ IsNone(ToInt(Get(supplied.bus)))
                     THEN "Invalid bus" ELSE "Invalid address")

\* construction with a valid bus and an address that is no integer
C20_Witness ==
    /\ pc = "failed"
    /\ supplied.bus = Some(StrValue("0"))
    /\ supplied.address = Some(StrValue("zz"))
    /\ raised = "Invalid address"
    /\ hardware = {}

----------------------------------------------------------------------------
\* The bus and address the command line tool uses.

\* the integer the configuration gives for an option, or its default
ConfiguredInt(opt, default) ==
    IF IsNone(opt) THEN default ELSE Get(ToInt(Get(opt)))

\* C24: whenever --bus or --address is given, bus 0 included, the PiJuiceApi
\* object of the command line tool is created with the value given; without
\* the option the configured value is used, or bus 1 and address 0x14.
C24_OverrideAlwaysUsed ==
    pc = "ready" =>
        /\ Get(pj).bus =
              IF ~IsNone(args.bus) THEN Get(args.bus).n
              ELSE ConfiguredInt(supplied.bus, 1)
        /\ Get(pj).address =
              IF ~IsNone(args.address) THEN Get(ToInt(Get(args.address)))
              ELSE ConfiguredInt(supplied.address, 20)

----------------------------------------------------------------------------
\* The field map query of the command line tool.

\* the field map query ran to its end
MapDisplayed ==
    /\ pc = "exited"
    /\ ran = <<"map">>

\* the lines printed after those of main: the path of the configuration file
\* and, above debug level 0, the debug level
HandlerLines == SubSeq(printed, (IF weewx_debug > 0 THEN 3 ELSE 2), Len(printed))

\* the lines the handler printed after the four lines of its heading
PrintedEntries == SubSeq(HandlerLines, 5, Len(HandlerLines))

\* C23 as stated: the field map query prints the field map resolved from the
\* configuration, one line for each of its entries.
C23_PrintsActiveMap ==
    MapDisplayed =>
        LET fm == ResolveFieldMap(supplied)
        IN  /\ Len(PrintedEntries) = Cardinality(DOMAIN fm)
            /\ \A k \in DOMAIN fm :
                  \E i \in 1..Len(PrintedEntries) :
                      PrintedEntries[i] = <<"    %23s: %s", k, fm[k]>>

\* C23 amended: the field map query prints the default field map whatever
\* the configuration holds, under the heading "PiJuice service default field
\* map:", one line for each entry in the natural order of the WeeWX field names.
C23_PrintsDefaultMap ==
    MapDisplayed =>
        /\ HandlerLines[2] = <<"PiJuice service default field map:">>
        /\ PrintedEntries =
              << <<"    %23s: %s", "io_current", "io_current">>,
                 <<"    %23s: %s", "io_voltage", "io_voltage">>,
                 <<"    %23s: %s", "ups_charge", "batt_charge">>,
                 <<"    %23s: %s", "ups_current", "batt_current">>,
                 <<"    %23s: %s", "ups_temp", "batt_temp">>,
                 <<"    %23s: %s", "ups_voltage", "batt_voltage">> >>

\* the field map query with a configuration whose [[field_map]] stanza
\* replaces the default field map
C23_Witness ==
    /\ MapDisplayed
    /\ ~IsNone(supplied.field_map)
    /\ ResolveFieldMap(supplied) # default_field_map

----------------------------------------------------------------------------
\* Errors met by the queries of the command line tool.

\* the API calls of the query that ran, in the order the handler reads them
ReadingsOf(q) ==
    CASE q = "status" -> <<"status">>
      [] q = "fault" -> <<"fault_status">>
      [] q = "battery" -> BatteryCalls
      [] q = "io" -> IoCalls
      [] q = "rtc" -> <<"rtc_time">>

\* the label of the value line of a reading of the battery and input queries
LabelOf(c) ==
    CASE c = "charge_level" -> "Charge"
      [] c \in {"battery_voltage", "io_voltage"} -> "Voltage"
      [] c \in {"battery_current", "io_current"} -> "Current"
      [] c = "battery_temperature" -> "Temperature"

\* process_options called the handler of a status, fault, battery, input or
\* clock query
QueryRan ==
    /\ ran # <<>>
    /\ ran[1] \in {"status", "fault", "battery", "io", "rtc"}

\* C25: for the status, fault, battery, input and clock queries, with and
\* without --raw, every reading that came back as an error dict has its error
\* line printed, in the order of the readings, the handler returns and the
\* tool exits without an exception, and every other reading of the battery
\* and input queries still has its value line.
C25_ErrorsPrintedInline ==
    QueryRan =>
        LET calls == ReadingsOf(ran[1])
            failed == SelectSeq(calls, LAMBDA c : ~resp[c].has_data)
            error_lines ==
                SelectSeq(printed, LAMBDA l : l[1] \in {"Error: %s", "Error: %s (%s)"})
        IN  /\ pc = "exited"
            /\ raised = ""
            /\ Len(error_lines) = Len(failed)
            /\ \A i \in 1..Len(failed) :
                  /\ error_lines[i][1] =
                        (IF args.raw THEN "Error: %s" ELSE "Error: %s (%s)")
                  /\ error_lines[i][Len(error_lines[i])] = resp[failed[i]].error
            /\ ran[1] \in {"battery", "io"} =>
                  \A i \in 1..Len(calls) :
                      resp[calls[i]].has_data =>
                          \E j \in 1..Len(printed) :
                              /\ Len(printed[j]) = 3
                              /\ printed[j][2] = LabelOf(calls[i])

\* a battery query whose voltage came back as an error and whose charge level
\* and temperature came back as data
C25_Witness ==
    /\ pc = "exited"
    /\ ran = <<"battery">>
    /\ ~resp["battery_voltage"].has_data
    /\ resp["charge_level"].has_data
    /\ resp["battery_temperature"].has_data

----------------------------------------------------------------------------
\* One query for each run of the command line tool.

\* the query flags in the order process_options tests them
FlagOrder == <<"test_service", "status", "fault", "battery", "io", "rtc", "map">>

\* C22: process_options calls at most one handler, that of the first query
\* flag set in the order test-service, status, fault, battery, input, rtc,
\* map, and the call is followed by exit(0), no exception leaving the handler;
\* with no query flag set no handler is called, process_options returns and
\* main prints the usage.  (With --version main exits before process_options
\* is called.)
C22_OneQueryThenExitZero ==
    /\ Len(ran) <= 1
    /\ ran # <<>> =>
          \E i \in 1..Len(FlagOrder) :
              /\ ran[1] = FlagOrder[i]
              /\ args[FlagOrder[i]]
              /\ \A j \in 1..(i - 1) : ~args[FlagOrder[j]]
    /\ (pc = "exited" /\ ~args.version) => ran # <<>>
    /\ pc \in {"returned", "done"} =>
          /\ ran = <<>>
          /\ \A i \in 1..Len(FlagOrder) : ~args[FlagOrder[i]]
    /\ pc = "done" => printed[Len(printed)] = <<"usage: %(usage)s">>
    /\ pc # "crashed"
    /\ ran # <<>> => raised = ""

====
